---- MODULE Spec2Model ----
(***************************************************************************)
(* Sleep inhibition of libobs/util/platform-nix.c: os_inhibit_sleep_create, *)
(* os_inhibit_sleep_set_active, os_inhibit_sleep_destroy and the watchdog   *)
(* thread screensaver_thread / reset_screensaver.                           *)
(*                                                                          *)
(* Every variable is a function of the handle.  The application thread that *)
(* owns a handle is at pc[h]; the labels Lnnn are the source lines the      *)
(* caller is about to execute.  The watchdog thread of a handle is at       *)
(* thread[h].                                                               *)
(***************************************************************************)
EXTENDS Integers, FiniteSets, Sequences, TLC

\* Bound on the number of xdg-screensaver invocations of one handle.
MaxResets == 2

Handles == {1, 2}

\* The handle the single-handle specifications Spec and FairSpec run.
SpecHandles == {1}

\* pthread_create returns 0 or an error number; error numbers are positive
\* (EAGAIN is 11).
PthreadCreateResults == {0, 11}

\* posix_spawnp returns 0 or an error number (ENOENT is 2).
PosixSpawnResults == {0, 2}

\* What pthread_join does on a pthread_t that names no joinable thread
\* (undefined behaviour): it returns without joining, or the process dies.
JoinUndefinedOutcomes == {"returns", "crash"}

VARIABLES
    dbus,        \* info->dbus: "null", "session", "destroyed"
    stop_event,  \* info->stop_event: "null", "valid", "destroyed"
    signalled,   \* state of the auto-reset event *info->stop_event
    active,      \* info->active
    thread,      \* info->screensaver_thread: "none" (no joinable thread),
                 \* "loop" (at line 498, about to wait), "wait" (blocked in
                 \* os_event_timedwait), "reset" (timed out, line 499),
                 \* "waitpid" (line 488), "exited" (returned, not yet joined)
    pc,          \* position of the handle's caller
    arg,         \* parameter `active' of os_inhibit_sleep_set_active
    ret,         \* local `ret' of os_inhibit_sleep_set_active
    result,      \* value returned by the last os_inhibit_sleep_set_active:
                 \* "none", "true", "false"
    in_destroy,  \* the running set_active was called by os_inhibit_sleep_destroy
    inhibited,   \* last `active' passed to dbus_inhibit_sleep on info->dbus
    resets,      \* number of posix_spawnp("xdg-screensaver reset") calls
    pending,     \* PairSpec: the call the second handle still has to repeat
    env          \* PairSpec: the environment's answers to the first handle

pairVars == <<pending, env>>
vars == <<dbus, stop_event, signalled, active, thread, pc, arg, ret,
          result, in_destroy, inhibited, resets, pending, env>>

NoCall == [op |-> "none", a |-> FALSE]

Init ==
    /\ dbus = [h \in Handles |-> "null"]
    /\ stop_event = [h \in Handles |-> "null"]
    /\ signalled = [h \in Handles |-> FALSE]
    /\ active = [h \in Handles |-> FALSE]
    /\ thread = [h \in Handles |-> "none"]
    /\ pc = [h \in Handles |-> "none"]
    /\ arg = [h \in Handles |-> FALSE]
    /\ ret = [h \in Handles |-> 0]
    /\ result = [h \in Handles |-> "none"]
    /\ in_destroy = [h \in Handles |-> FALSE]
    /\ inhibited = [h \in Handles |-> FALSE]
    /\ resets = [h \in Handles |-> 0]
    /\ pending = NoCall
    /\ env = [r |-> 0, o |-> "returns"]

\* The watchdog thread of h exists and has not returned.
Running(h) == thread[h] \in {"loop", "wait", "reset", "waitpid"}

BoolStr(b) == IF b THEN "true" ELSE "false"

----------------------------------------------------------------------------
\* os_inhibit_sleep_create: bzalloc'ed handle, d = dbus_sleep_info_create
\* returned a session, e = os_event_init created the event (its result is
\* not looked at; on failure info->stop_event stays NULL).
os_inhibit_sleep_create(h, d, e) ==
    /\ pc[h] = "none"
    /\ dbus' = [dbus EXCEPT ![h] = IF d THEN "session" ELSE "null"]
    /\ stop_event' = [stop_event EXCEPT ![h] = IF e THEN "valid" ELSE "null"]
    /\ signalled' = [signalled EXCEPT ![h] = FALSE]
    /\ active' = [active EXCEPT ![h] = FALSE]
    /\ pc' = [pc EXCEPT ![h] = "idle"]
    /\ UNCHANGED <<thread, arg, ret, result, in_destroy, inhibited, resets>>

\* A call os_inhibit_sleep_set_active(info, a) with a non-null handle.
Call(h, a) ==
    /\ pc[h] = "idle"
    /\ pc' = [pc EXCEPT ![h] = "L508"]
    /\ arg' = [arg EXCEPT ![h] = a]
    /\ ret' = [ret EXCEPT ![h] = 0]
    /\ result' = [result EXCEPT ![h] = "none"]
    /\ in_destroy' = [in_destroy EXCEPT ![h] = FALSE]
    /\ UNCHANGED <<dbus, stop_event, signalled, active, thread, inhibited,
                   resets>>

\* os_inhibit_sleep_destroy without line 541: the resources are released
\* without os_inhibit_sleep_set_active(info, false).
os_inhibit_sleep_destroy_norelease(h) ==
    /\ pc[h] = "idle"
    /\ pc' = [pc EXCEPT ![h] = "L543"]
    /\ arg' = [arg EXCEPT ![h] = FALSE]
    /\ ret' = [ret EXCEPT ![h] = 0]
    /\ result' = [result EXCEPT ![h] = "none"]
    /\ in_destroy' = [in_destroy EXCEPT ![h] = TRUE]
    /\ UNCHANGED <<dbus, stop_event, signalled, active, thread, inhibited,
                   resets>>

\* os_inhibit_sleep_destroy(info), info non-null: line 541 calls
\* os_inhibit_sleep_set_active(info, false).
os_inhibit_sleep_destroy(h) ==
    /\ pc[h] = "idle"
    /\ pc' = [pc EXCEPT ![h] = "L508"]
    /\ arg' = [arg EXCEPT ![h] = FALSE]
    /\ ret' = [ret EXCEPT ![h] = 0]
    /\ result' = [result EXCEPT ![h] = "none"]
    /\ in_destroy' = [in_destroy EXCEPT ![h] = TRUE]
    /\ UNCHANGED <<dbus, stop_event, signalled, active, thread, inhibited,
                   resets>>

\* return v from os_inhibit_sleep_set_active: back to the application, or on
\* to line 543 of os_inhibit_sleep_destroy.
Return(h, v) ==
    /\ result' = [result EXCEPT ![h] = BoolStr(v)]
    /\ pc' = [pc EXCEPT ![h] = IF in_destroy[h] THEN "L543" ELSE "idle"]

\* Lines 508-511 without the comparison of info->active with active.
Guard_nocompare(h) ==
    /\ pc[h] = "L508"
    /\ pc' = [pc EXCEPT ![h] = "L513"]
    /\ UNCHANGED <<dbus, stop_event, signalled, active, thread, arg, ret,
                   result, in_destroy, inhibited, resets>>

\* Lines 508-511: if (info->active == active) return false;
Guard(h) ==
    /\ pc[h] = "L508"
    /\ IF active[h] = arg[h]
         THEN Return(h, FALSE)
         ELSE /\ pc' = [pc EXCEPT ![h] = "L513"]
              /\ UNCHANGED result
    /\ UNCHANGED <<dbus, stop_event, signalled, active, thread, arg, ret,
                   in_destroy, inhibited, resets>>

\* Lines 513-516 giving up when there is no session:
\* if (!info->dbus) return false;
Dbus_required(h) ==
    /\ pc[h] = "L513"
    /\ inhibited' = [inhibited EXCEPT ![h] =
                        IF dbus[h] = "session" THEN arg[h] ELSE @]
    /\ IF dbus[h] = "session"
         THEN /\ pc' = [pc EXCEPT ![h] = "L518"]
              /\ UNCHANGED result
         ELSE Return(h, FALSE)
    /\ UNCHANGED <<dbus, stop_event, signalled, active, thread, arg, ret,
                   in_destroy, resets>>

\* Lines 513-516: if (info->dbus) dbus_inhibit_sleep(info->dbus, reason, active);
Dbus(h) ==
    /\ pc[h] = "L513"
    /\ inhibited' = [inhibited EXCEPT ![h] =
                        IF dbus[h] = "session" THEN arg[h] ELSE @]
    /\ pc' = [pc EXCEPT ![h] = "L518"]
    /\ UNCHANGED <<dbus, stop_event, signalled, active, thread, arg, ret,
                   result, in_destroy, resets>>

\* Lines 518-521: if (!info->stop_event) return true; if (active) ... else ...
EventCheck(h) ==
    /\ pc[h] = "L518"
    /\ IF stop_event[h] = "null"
         THEN Return(h, TRUE)
         ELSE /\ pc' = [pc EXCEPT ![h] = IF arg[h] THEN "L522" ELSE "L530"]
              /\ UNCHANGED result
    /\ UNCHANGED <<dbus, stop_event, signalled, active, thread, arg, ret,
                   in_destroy, inhibited, resets>>

\* Lines 522-528: ret = pthread_create(...); if (ret < 0) { blog; return false; }
\* r is what pthread_create returns; the thread exists iff r = 0.
PthreadCreate(h, r) ==
    /\ pc[h] = "L522"
    /\ ret' = [ret EXCEPT ![h] = r]
    /\ thread' = [thread EXCEPT ![h] = IF r = 0 THEN "loop" ELSE @]
    /\ IF r < 0
         THEN Return(h, FALSE)
         ELSE /\ pc' = [pc EXCEPT ![h] = "L534"]
              /\ UNCHANGED result
    /\ UNCHANGED <<dbus, stop_event, signalled, active, arg, in_destroy,
                   inhibited, resets>>

\* Line 530: os_event_signal(info->stop_event);
Signal(h) ==
    /\ pc[h] = "L530"
    /\ signalled' = [signalled EXCEPT ![h] = TRUE]
    /\ pc' = [pc EXCEPT ![h] = "L531"]
    /\ UNCHANGED <<dbus, stop_event, active, thread, arg, ret, result,
                   in_destroy, inhibited, resets>>

\* Line 531: pthread_join(info->screensaver_thread, NULL) on a joinable
\* thread: blocks until the thread has returned.
Join(h) ==
    /\ pc[h] = "L531"
    /\ thread[h] = "exited"
    /\ thread' = [thread EXCEPT ![h] = "none"]
    /\ pc' = [pc EXCEPT ![h] = "L534"]
    /\ UNCHANGED <<dbus, stop_event, signalled, active, arg, ret, result,
                   in_destroy, inhibited, resets>>

\* Line 531 when info->screensaver_thread names no joinable thread (never
\* created, or joined before): undefined behaviour, outcome o.
JoinUndefined(h, o) ==
    /\ pc[h] = "L531"
    /\ thread[h] = "none"
    /\ pc' = [pc EXCEPT ![h] = IF o = "crash" THEN "crashed" ELSE "L534"]
    /\ UNCHANGED <<dbus, stop_event, signalled, active, thread, arg, ret,
                   result, in_destroy, inhibited, resets>>

\* Lines 534-535: info->active = active; return true;
Flip(h) ==
    /\ pc[h] = "L534"
    /\ active' = [active EXCEPT ![h] = arg[h]]
    /\ Return(h, TRUE)
    /\ UNCHANGED <<dbus, stop_event, signalled, thread, arg, ret,
                   in_destroy, inhibited, resets>>

\* Line 543: dbus_sleep_info_destroy(info->dbus);
DestroyDbus(h) ==
    /\ pc[h] = "L543"
    /\ dbus' = [dbus EXCEPT ![h] = IF @ = "session" THEN "destroyed" ELSE @]
    /\ pc' = [pc EXCEPT ![h] = "L545"]
    /\ UNCHANGED <<stop_event, signalled, active, thread, arg, ret, result,
                   in_destroy, inhibited, resets>>

\* Line 545: os_event_destroy(info->stop_event);
DestroyEvent(h) ==
    /\ pc[h] = "L545"
    /\ stop_event' = [stop_event EXCEPT ![h] =
                         IF @ = "valid" THEN "destroyed" ELSE @]
    /\ pc' = [pc EXCEPT ![h] = "L546"]
    /\ UNCHANGED <<dbus, signalled, active, thread, arg, ret, result,
                   in_destroy, inhibited, resets>>

\* Lines 546-548: posix_spawnattr_destroy, bfree(info->reason), bfree(info).
Free(h) ==
    /\ pc[h] = "L546"
    /\ pc' = [pc EXCEPT ![h] = "freed"]
    /\ UNCHANGED <<dbus, stop_event, signalled, active, thread, arg, ret,
                   result, in_destroy, inhibited, resets>>

----------------------------------------------------------------------------
\* The watchdog thread.

\* Line 498, entry of os_event_timedwait: a pending signal is consumed at
\* once (auto-reset) and the loop ends; otherwise the thread blocks.
WaitEnter(h) ==
    /\ thread[h] = "loop"
    /\ IF signalled[h]
         THEN /\ signalled' = [signalled EXCEPT ![h] = FALSE]
              /\ thread' = [thread EXCEPT ![h] = "exited"]
         ELSE /\ thread' = [thread EXCEPT ![h] = "wait"]
              /\ UNCHANGED signalled
    /\ UNCHANGED <<dbus, stop_event, active, pc, arg, ret, result,
                   in_destroy, inhibited, resets>>

\* Line 498, the blocked wait is woken by os_event_signal: the signal is
\* consumed, os_event_timedwait returns 0 and the thread returns (line 501).
WaitSignalled(h) ==
    /\ thread[h] = "wait"
    /\ signalled[h]
    /\ signalled' = [signalled EXCEPT ![h] = FALSE]
    /\ thread' = [thread EXCEPT ![h] = "exited"]
    /\ UNCHANGED <<dbus, stop_event, active, pc, arg, ret, result,
                   in_destroy, inhibited, resets>>

\* Line 498, the 30000 ms elapse: os_event_timedwait returns ETIMEDOUT.  A
\* signal that arrives together with the timeout stays pending.
WaitTimeout(h) ==
    /\ thread[h] = "wait"
    /\ resets[h] < MaxResets
    /\ thread' = [thread EXCEPT ![h] = "reset"]
    /\ UNCHANGED <<dbus, stop_event, signalled, active, pc, arg, ret, result,
                   in_destroy, inhibited, resets>>

\* reset_screensaver trying posix_spawnp again when it failed.
reset_screensaver_retry(h, err) ==
    /\ thread[h] = "reset"
    /\ resets' = [resets EXCEPT ![h] = IF @ < MaxResets THEN @ + 1 ELSE @]
    /\ thread' = [thread EXCEPT ![h] = IF err = 0 THEN "waitpid" ELSE "reset"]
    /\ UNCHANGED <<dbus, stop_event, signalled, active, pc, arg, ret, result,
                   in_destroy, inhibited>>

\* Lines 479-491, reset_screensaver: posix_spawnp returns err; on 0 the
\* thread goes on to waitpid, otherwise it logs and returns to the loop.
reset_screensaver(h, err) ==
    /\ thread[h] = "reset"
    /\ resets' = [resets EXCEPT ![h] = @ + 1]
    /\ thread' = [thread EXCEPT ![h] = IF err = 0 THEN "waitpid" ELSE "loop"]
    /\ UNCHANGED <<dbus, stop_event, signalled, active, pc, arg, ret, result,
                   in_destroy, inhibited>>

\* Line 488: waitpid returns once the child has exited.
Waitpid(h) ==
    /\ thread[h] = "waitpid"
    /\ thread' = [thread EXCEPT ![h] = "loop"]
    /\ UNCHANGED <<dbus, stop_event, signalled, active, pc, arg, ret, result,
                   in_destroy, inhibited, resets>>

\* Lines 494-502.
screensaver_thread(h) ==
    \/ WaitEnter(h)
    \/ WaitSignalled(h)
    \/ WaitTimeout(h)
    \/ \E err \in PosixSpawnResults : reset_screensaver(h, err)
    \/ Waitpid(h)

----------------------------------------------------------------------------
\* One handle, any calls: the application creates the handle, calls
\* os_inhibit_sleep_set_active with any argument any number of times and
\* destroys the handle; the watchdog runs beside it.

Next ==
    \/ \E h \in SpecHandles, d \in BOOLEAN, e \in BOOLEAN :
           os_inhibit_sleep_create(h, d, e) /\ UNCHANGED pairVars
    \/ \E h \in SpecHandles, a \in BOOLEAN : Call(h, a) /\ UNCHANGED pairVars
    \/ \E h \in SpecHandles : os_inhibit_sleep_destroy(h) /\ UNCHANGED pairVars
    \/ \E h \in SpecHandles : Guard(h) /\ UNCHANGED pairVars
    \/ \E h \in SpecHandles : Dbus(h) /\ UNCHANGED pairVars
    \/ \E h \in SpecHandles : EventCheck(h) /\ UNCHANGED pairVars
    \/ \E h \in SpecHandles, r \in PthreadCreateResults :
           PthreadCreate(h, r) /\ UNCHANGED pairVars
    \/ \E h \in SpecHandles : Signal(h) /\ UNCHANGED pairVars
    \/ \E h \in SpecHandles : Join(h) /\ UNCHANGED pairVars
    \/ \E h \in SpecHandles, o \in JoinUndefinedOutcomes :
           JoinUndefined(h, o) /\ UNCHANGED pairVars
    \/ \E h \in SpecHandles : Flip(h) /\ UNCHANGED pairVars
    \/ \E h \in SpecHandles : DestroyDbus(h) /\ UNCHANGED pairVars
    \/ \E h \in SpecHandles : DestroyEvent(h) /\ UNCHANGED pairVars
    \/ \E h \in SpecHandles : Free(h) /\ UNCHANGED pairVars
    \/ \E h \in SpecHandles : WaitEnter(h) /\ UNCHANGED pairVars
    \/ \E h \in SpecHandles : WaitSignalled(h) /\ UNCHANGED pairVars
    \/ \E h \in SpecHandles : WaitTimeout(h) /\ UNCHANGED pairVars
    \/ \E h \in SpecHandles, err \in PosixSpawnResults :
           reset_screensaver(h, err) /\ UNCHANGED pairVars
    \/ \E h \in SpecHandles : Waitpid(h) /\ UNCHANGED pairVars

Spec == Init /\ [][Next]_vars

\* Scheduling: a call that has started keeps executing, the watchdog thread
\* is scheduled, and a spawned xdg-screensaver eventually exits.  No timeout
\* and no new call is ever forced.
CallerStep(h) ==
    /\ \/ Guard(h)
       \/ Dbus(h)
       \/ EventCheck(h)
       \/ \E r \in PthreadCreateResults : PthreadCreate(h, r)
       \/ Signal(h)
       \/ Join(h)
       \/ \E o \in JoinUndefinedOutcomes : JoinUndefined(h, o)
       \/ Flip(h)
       \/ DestroyDbus(h)
       \/ DestroyEvent(h)
       \/ Free(h)
    /\ UNCHANGED pairVars

WatchdogStep(h) ==
    /\ \/ WaitEnter(h)
       \/ WaitSignalled(h)
       \/ \E err \in PosixSpawnResults : reset_screensaver(h, err)
       \/ Waitpid(h)
    /\ UNCHANGED pairVars

FairSpec ==
    /\ Spec
    /\ \A h \in SpecHandles : WF_vars(CallerStep(h)) /\ WF_vars(WatchdogStep(h))

----------------------------------------------------------------------------
\* Two handles, the same calls: handle 1 is created with a desktop-bus
\* session, handle 2 without.  Every call made on handle 1 is repeated on
\* handle 2 with the same arguments and the same answers of the environment
\* (os_event_init, pthread_create, the outcome of an undefined pthread_join).

Quiescent == {"idle", "freed", "crashed"}

PairCreate ==
    \E e \in BOOLEAN :
        /\ pending.op = "none"
        /\ os_inhibit_sleep_create(1, TRUE, e)
        /\ pending' = [op |-> "create", a |-> e]
        /\ UNCHANGED env

PairCall ==
    \E a \in BOOLEAN :
        /\ pending.op = "none"
        /\ pc[2] = "idle"
        /\ Call(1, a)
        /\ pending' = [op |-> "set_active", a |-> a]
        /\ UNCHANGED env

PairDestroy ==
    /\ pending.op = "none"
    /\ pc[2] = "idle"
    /\ os_inhibit_sleep_destroy(1)
    /\ pending' = [op |-> "destroy", a |-> FALSE]
    /\ UNCHANGED env

PairPthreadCreate ==
    \E r \in PthreadCreateResults :
        /\ PthreadCreate(1, r)
        /\ env' = [env EXCEPT !.r = r]
        /\ UNCHANGED pending

PairJoinUndefined ==
    \E o \in JoinUndefinedOutcomes :
        /\ JoinUndefined(1, o)
        /\ env' = [env EXCEPT !.o = o]
        /\ UNCHANGED pending

RepeatCreate ==
    /\ pending.op = "create"
    /\ os_inhibit_sleep_create(2, FALSE, pending.a)
    /\ pending' = NoCall
    /\ UNCHANGED env

RepeatCall ==
    /\ pending.op = "set_active"
    /\ pc[1] \in Quiescent
    /\ Call(2, pending.a)
    /\ pending' = NoCall
    /\ UNCHANGED env

RepeatDestroy ==
    /\ pending.op = "destroy"
    /\ pc[1] \in Quiescent
    /\ os_inhibit_sleep_destroy(2)
    /\ pending' = NoCall
    /\ UNCHANGED env

\* The steps of a running call that take no answer from the environment.
CallStep(h) ==
    /\ \/ Guard(h)
       \/ Dbus(h)
       \/ EventCheck(h)
       \/ Signal(h)
       \/ Join(h)
       \/ Flip(h)
       \/ DestroyDbus(h)
       \/ DestroyEvent(h)
       \/ Free(h)
    /\ UNCHANGED pairVars

PairNext ==
    \/ PairCreate
    \/ PairCall
    \/ PairDestroy
    \/ PairPthreadCreate
    \/ PairJoinUndefined
    \/ RepeatCreate
    \/ RepeatCall
    \/ RepeatDestroy
    \/ PthreadCreate(2, env.r) /\ UNCHANGED pairVars
    \/ JoinUndefined(2, env.o) /\ UNCHANGED pairVars
    \/ \E h \in Handles : CallStep(h)
    \/ \E h \in Handles : screensaver_thread(h) /\ UNCHANGED pairVars

PairSpec == Init /\ [][PairNext]_vars

TypeOK ==
    /\ \A h \in Handles :
        /\ dbus[h] \in {"null", "session", "destroyed"}
        /\ stop_event[h] \in {"null", "valid", "destroyed"}
        /\ thread[h] \in {"none", "loop", "wait", "reset", "waitpid", "exited"}
        /\ resets[h] \in 0..MaxResets

----------------------------------------------------------------------------
\* The claims.

\* The caller of h is back from os_inhibit_sleep_set_active (in the
\* application, or in os_inhibit_sleep_destroy right after line 541).
Returned(h) == pc[h] \in {"idle", "L543"}

\* C1: between calls the watchdog thread of a handle is running if and only
\* if the handle's active flag is true.
C1_WatchdogIffActive ==
    \A h \in Handles : pc[h] = "idle" => (Running(h) <=> active[h])

\* C2: in a deactivating call the order is stop signal, thread exit, join
\* return, active := false: the watchdog returns only after the stop signal
\* of the call (caller at line 531), pthread_join returns only on a thread
\* that has exited, and no watchdog runs when the call has returned true.
C2_StopExitJoinOrder ==
    /\ [](\A h \in Handles :
            (Returned(h) /\ result[h] = "true" /\ ~arg[h]) => ~Running(h))
    /\ [][\A h \in Handles :
            /\ (thread[h] # "exited" /\ thread'[h] = "exited")
                   => pc[h] = "L531"
            /\ (pc[h] = "L531" /\ pc'[h] = "L534") => thread[h] = "exited"
            /\ (active[h] /\ ~active'[h]) => pc[h] = "L534"]_vars

\* C3: no running watchdog coexists with a released resource: while the
\* watchdog runs, os_inhibit_sleep_destroy is not past its call of
\* os_inhibit_sleep_set_active, and neither the stop event nor the bus
\* session is destroyed nor the handle freed.
C3_JoinBeforeRelease ==
    \A h \in Handles :
        Running(h) =>
            /\ pc[h] \notin {"L543", "L545", "L546", "freed"}
            /\ stop_event[h] # "destroyed"
            /\ dbus[h] # "destroyed"

\* C3 witness: os_inhibit_sleep_destroy of an active handle has freed the
\* handle; its set_active(false) returned true, the stop signal of the call
\* was consumed by the watchdog (which had reset the screensaver before) and
\* the watchdog was joined.
C3_Witness ==
    \E h \in Handles :
        /\ pc[h] = "freed"
        /\ result[h] = "true"
        /\ ~signalled[h]
        /\ thread[h] = "none"
        /\ resets[h] > 0

\* C4: os_inhibit_sleep_set_active(h, a) with a equal to info->active
\* returns false at once and changes nothing else.
C4_SameStateNoChange ==
    [][\A h \in Handles :
          (pc[h] = "L508" /\ pc'[h] # "L508" /\ active[h] = arg[h]) =>
              /\ result'[h] = "false"
              /\ Returned(h)'
              /\ UNCHANGED <<dbus, stop_event, signalled, active, thread,
                             inhibited, resets>>]_vars

\* C4 witness: set_active(h, true) on an active handle with a running
\* watchdog has returned false.
C4_Witness ==
    \E h \in Handles :
        /\ pc[h] = "idle"
        /\ result[h] = "false"
        /\ arg[h]
        /\ active[h]
        /\ Running(h)

\* C5: when pthread_create fails, the call returns false with active false,
\* and no call ever gets to join a thread that was never started.
C5_CreateFailureReported ==
    \A h \in Handles :
        /\ (pc[h] = "idle" /\ arg[h] /\ ret[h] # 0)
               => (result[h] = "false" /\ ~active[h])
        /\ pc[h] = "L531" => thread[h] # "none"

\* C6: every os_inhibit_sleep_set_active that returns true has flipped the
\* flag: active equals the argument when the call returns.
C6_TrueMeansFlipped ==
    \A h \in Handles :
        (Returned(h) /\ result[h] = "true") => active[h] = arg[h]

\* C7: every timeout of the wait is followed by exactly one posix_spawnp,
\* whether or not it succeeds, before the thread waits again; nothing else
\* spawns; and an inactive handle has no running watchdog (so no reset)
\* unless an activating call has just created it.
C7_OneResetPerTimeout ==
    /\ [](\A h \in Handles :
            (~active[h] /\ ~(pc[h] = "L534" /\ arg[h])) => ~Running(h))
    /\ [][\A h \in Handles :
            /\ (thread[h] = "wait" /\ thread'[h] # "wait")
                   => /\ resets'[h] = resets[h]
                      /\ thread'[h] \in {"reset", "exited"}
            /\ (thread[h] = "reset" /\ thread'[h] # "reset")
                   => /\ resets'[h] = resets[h] + 1
                      /\ thread'[h] \in {"waitpid", "loop"}
            /\ resets'[h] # resets[h]
                   => (thread[h] = "reset" /\ thread'[h] # "reset")]_vars

\* C7 witness: one reset was made while the handle was active and the
\* deactivating call has returned true with the watchdog joined.
C7_Witness ==
    \E h \in Handles :
        /\ pc[h] = "idle"
        /\ resets[h] = 1
        /\ result[h] = "true"
        /\ ~arg[h]
        /\ ~active[h]
        /\ ~signalled[h]
        /\ thread[h] = "none"

\* Handles 1 and 2 have both completed the same calls.
PairInStep ==
    /\ pending.op = "none"
    /\ pc[1] \in Quiescent
    /\ pc[2] \in Quiescent

\* After the same calls the two handles agree on where the caller is, on
\* the value returned, on active and on whether a watchdog was started and
\* not yet joined.
PairAgrees ==
    PairInStep =>
        /\ pc[1] = pc[2]
        /\ result[1] = result[2]
        /\ active[1] = active[2]
        /\ (thread[1] = "none") <=> (thread[2] = "none")

C9_StopNeverLost ==
    /\ [][\A h \in Handles :
            (signalled[h] /\ thread[h] = "loop" /\ thread'[h] # "loop")
                => (thread'[h] = "exited" /\ resets'[h] = resets[h])]_vars
    /\ \A h \in Handles :
            (pc[h] = "L508" /\ active[h] /\ ~arg[h])
                ~> (pc[h] \in {"idle", "freed"})

\* C10: with a bus session the inhibition is in force exactly when active
\* is true, inhibit(true) is never issued while an inhibition is in force,
\* and the session is never torn down with an inhibition in force.
C10_BusPairedWithActive ==
    \A h \in Handles :
        /\ (dbus[h] = "session" /\ pc[h] = "idle")
               => (inhibited[h] <=> active[h])
        /\ (dbus[h] = "session" /\ pc[h] = "L513" /\ arg[h]) => ~inhibited[h]
        /\ dbus[h] = "destroyed" => ~inhibited[h]
====
